---- MODULE Spec2Model ----
(***************************************************************************)
(* Batch PDF retrieval: the hardened downloader (src/downloader.js) and    *)
(* the baseline / click-to-continue downloader (src/unnamed/part_000).     *)
(* Strings are sequences of one-character strings; an absent (null) or     *)
(* empty file name is the empty sequence, both being falsy in the code.    *)
(***************************************************************************)
EXTENDS Integers, Sequences, FiniteSets, TLC

(* ---------------------------- bounds ----------------------------------- *)
\* longest request list
MaxN == 2
\* largest value of the concurrent option
MaxC == 2
\* largest value of the retryCount option
MaxRetry == 1
\* longest redirect chain the modelled servers produce
MaxHops == 1
\* number of distinct (timestamp, random) uniqueness tokens
MaxToken == 1
\* the counts of windows and of delays stop here in a run that never ends
\* (concurrent = 0)
MaxWindows == 3
\* largest retryCount of the single-request runs
MaxItemRetry == 2
\* longest request list of the sequential runs
MaxClickN == 3
\* length of the request lists of the three-request batch runs
MaxWideN == 3
\* length of the redirect chain of the servers that keep redirecting
MaxCycleHops == 11
\* longest request list of the runs checked for termination
MaxLiveN == 1

(* ---------------------------- program constants ------------------------ *)
\* await this.delay(1000 * (attempt + 1))
BaseDelayMs == 1000

\* const { ..., delayBetweenBatches = 1000 } = options
DefaultBatchDelayMs == 1000

(* ---------------------------- strings ---------------------------------- *)
NoName == << >>
PdfExt == <<".", "p", "d", "f">>
\* 'downloaded_file'
Placeholder == <<"downloaded_file">>
IllegalChars == {"<", ">", ":", "\"", "/", "\\", "|", "?", "*"}

LowerChar(c) ==
    CASE c = "P" -> "p"
      [] c = "D" -> "d"
      [] c = "F" -> "f"
      [] OTHER -> c

toLowerCase(s) == [j \in 1..Len(s) |-> LowerChar(s[j])]

endsWith(s, suf) ==
    /\ Len(s) >= Len(suf)
    /\ SubSeq(s, Len(s) - Len(suf) + 1, Len(s)) = suf

\* String.prototype.lastIndexOf, 1-based; 0 when the character is absent
lastIndexOf(s, c) ==
    LET hits == {j \in 1..Len(s) : s[j] = c}
    IN  IF hits = {} THEN 0 ELSE CHOOSE j \in hits : \A m \in hits : m <= j

\* originalName.replace(/[<>:"/\\|?*]/g, '_')
Sanitize(s) == [j \in 1..Len(s) |-> IF s[j] \in IllegalChars THEN "_" ELSE s[j]]

\* fileName.split('?')[0]
BeforeQuery(s) ==
    LET hits == {j \in 1..Len(s) : s[j] = "?"}
    IN  IF hits = {} THEN s
        ELSE SubSeq(s, 1, (CHOOSE j \in hits : \A m \in hits : j <= m) - 1)

\* `_${timestamp}_${random}`: the pair is one token of the model
TokenStr(tok) == <<"_", ToString(tok)>>

generateSafeFilename(originalName, tok) ==
    LET sanitized == Sanitize(originalName)
    IN  IF ~endsWith(toLowerCase(sanitized), PdfExt)
        THEN sanitized \o TokenStr(tok) \o PdfExt
        ELSE SubSeq(sanitized, 1, lastIndexOf(sanitized, ".") - 1)
                 \o TokenStr(tok) \o PdfExt

\* baseline: if (!fileName.toLowerCase().endsWith('.pdf')) fileName += '.pdf'
EnsurePdf(fileName) ==
    IF ~endsWith(toLowerCase(fileName), PdfExt) THEN fileName \o PdfExt ELSE fileName

\* path.basename(parsedUrl.pathname): the last path segment, '' when none
basename(pathname) ==
    IF Len(pathname) = 0 THEN NoName ELSE pathname[Len(pathname)]

(* ----------------------------- URLs ------------------------------------ *)
\* a parsed URL: protocol and hostname are "" when url.parse finds none
UrlA == [protocol |-> "https:", hostname |-> "h", pathname |-> << <<"a", ".", "p", "d", "f">> >>]
UrlB == [protocol |-> "http:", hostname |-> "h", pathname |-> << <<"b">> >>]
UrlFtp == [protocol |-> "ftp:", hostname |-> "h", pathname |-> << <<"a", ".", "p", "d", "f">> >>]
UrlRel == [protocol |-> "", hostname |-> "", pathname |-> << <<"b">> >>]
\* 'http:///a.pdf': a protocol and no hostname
UrlNoHost == [protocol |-> "http:", hostname |-> "", pathname |-> << <<"a", ".", "p", "d", "f">> >>]

Urls == {UrlA, UrlB, UrlFtp, UrlRel, UrlNoHost}

NoUrl == [protocol |-> "", hostname |-> "", pathname |-> << >>]

\* the requests a list is drawn from: { url, name } entries (a bare string is
\* the entry with no name)
ReqA == [url |-> UrlA, name |-> NoName]
ReqB == [url |-> UrlB, name |-> <<"n", "?">>]
ReqFtp == [url |-> UrlFtp, name |-> NoName]
Requests == {ReqA, ReqB, ReqFtp}
ReqRel == [url |-> UrlRel, name |-> NoName]
ReqNoHost == [url |-> UrlNoHost, name |-> NoName]
\* the requests whose URL the hardened validation turns down
BadRequests == {ReqFtp, ReqRel, ReqNoHost}

\* what the modelled servers send as the body of a 200 response
ServerBody(u) ==
    IF u = UrlA THEN <<"%", "P", "D", "F", "-">> ELSE <<"<", "h", "t", "m", "l">>

\* the server's answers: a status code and a Location header (NoUrl: none)
Responses ==
    {[statusCode |-> 200, location |-> NoUrl],
     [statusCode |-> 404, location |-> NoUrl],
     [statusCode |-> 302, location |-> NoUrl],
     [statusCode |-> 302, location |-> UrlB],
     [statusCode |-> 302, location |-> UrlRel]}

Tokens == 1..MaxToken

(* ----------------------------- errors ---------------------------------- *)
Err(kind, u, code) == [kind |-> kind, url |-> u, code |-> code]
\* lastError before any assignment
Undefined == Err("undefined", NoUrl, 0)
NoErr == Err("", NoUrl, 0)
\* reading .message of undefined
TypeErr == Err("TypeError", NoUrl, 0)
\* the errors a call raises before it issues a request
UrlErrorKinds ==
    {"Invalid URL", "Unsupported protocol", "ERR_INVALID_URL", "ERR_INVALID_PROTOCOL"}

VARIABLES
    mode,                 \* "hardened" | "baseline" | "click": the scheduler run
    pdfList,              \* the request list
    concurrent, retryCount, delayBetweenBatches, pauseAfterFirst,   \* options
    spc,                  \* position of the scheduler
    i,                    \* its loop index (0-based, as in the code)
    items,                \* per request: position, attempt, lastError, value
    transfers,            \* HTTP requests awaiting a response or streaming a body
    files,                \* the download directory: path -> body, open handles
    chainLimit,           \* the servers of the run redirect at most this often in a row
    results, failed,      \* the two outcome lists
    resultIdx, failedIdx, \* history: the input index behind each outcome record
    calls,                \* history: top-level downloadPDF calls per request
    waits,                \* history: backoff delays per request, in ms
    outcomes,             \* history: per attempt, whether its promise resolved
    lastRaised,           \* history: the error that rejected the latest attempt
    mixed,                \* history: two attempts of the request raised different errors
    arrival,              \* history: requests in the order their outcome was reached
    finished,             \* history: attempts whose stream finished writing, what
                          \* validatePDF found, whether its warning was printed
    windows, delays,      \* history: windows started, inter-window delays
    pauses,               \* history: loop index after which a click was awaited
    clicks,               \* history: continuation signals received
    ref                   \* what an earlier call with the same list returned and met

opts == <<mode, pdfList, concurrent, retryCount, delayBetweenBatches, pauseAfterFirst,
          chainLimit, ref>>
sched == <<spc, i>>
lists == <<results, failed, resultIdx, failedIdx>>
itemHist == <<calls, waits, outcomes, lastRaised, mixed, arrival>>
schedHist == <<windows, delays, pauses, clicks>>
vars == <<opts, sched, items, transfers, files, lists, itemHist, finished, schedHist>>

N == Len(pdfList)
Hardened == mode = "hardened"

\* no call came before this one
NoRun == [outcomes |-> << >>, lastRaised |-> << >>, finished |-> {}, results |-> << >>,
          failed |-> << >>, calls |-> << >>, by |-> "none"]

IdleItem == [pc |-> "idle", attempt |-> 0, lastError |-> Undefined, delay |-> 0,
             value |-> [status |-> "none"]]

\* the state after construction, for runs of the given modes, with lists of
\* the given requests and lengths, the given retryCount and concurrent
\* values, and servers with redirect chains of the given length
InitWith(modes, reqs, lens, retries, concs, chain) ==
    /\ mode \in modes
    /\ chainLimit = chain
    /\ pdfList \in UNION {[1..n -> reqs] : n \in lens}
    /\ retryCount \in retries
    /\ concurrent \in IF mode = "click" THEN {1} ELSE concs
    /\ delayBetweenBatches \in IF mode = "hardened" THEN {0, DefaultBatchDelayMs} ELSE {0}
    /\ pauseAfterFirst \in IF mode = "click" THEN BOOLEAN ELSE {TRUE}
    /\ spc = "init"
    /\ i = 0
    /\ items = [k \in 1..N |-> IdleItem]
    /\ transfers = {}
    /\ files = {}
    /\ results = << >> /\ failed = << >>
    /\ resultIdx = << >> /\ failedIdx = << >>
    /\ calls = [k \in 1..N |-> 0]
    /\ waits = [k \in 1..N |-> << >>]
    /\ outcomes = [k \in 1..N |-> << >>]
    /\ lastRaised = [k \in 1..N |-> NoErr]
    /\ mixed = [k \in 1..N |-> FALSE]
    /\ arrival = << >>
    /\ finished = {}
    /\ windows = 0 /\ delays = 0
    /\ pauses = << >>
    /\ clicks = 0
    /\ ref = NoRun

Init ==
    InitWith({"hardened", "baseline", "click"}, {ReqA, ReqFtp}, 0..MaxN, -1..MaxRetry,
             0..MaxC, MaxHops)

(* ------------------------ downloadPDF: the call ------------------------ *)
\* the name a call works with: the given one, else the URL's last segment
DeriveName(fileUrl, fileName) ==
    IF fileName = NoName
    THEN IF basename(fileUrl.pathname) = NoName THEN Placeholder
         ELSE basename(fileUrl.pathname)
    ELSE fileName

\* src/downloader.js: validation, name, safe path; the request is issued
\* when err is NoErr
HardenedCall(fileUrl, fileName, tok) ==
    LET name == IF fileName = NoName
                THEN BeforeQuery(DeriveName(fileUrl, fileName))
                ELSE fileName
    IN  IF fileUrl.protocol = "" \/ fileUrl.hostname = ""
        THEN [err |-> Err("Invalid URL", fileUrl, 0), name |-> fileName, path |-> NoName]
        ELSE IF fileUrl.protocol # "http:" /\ fileUrl.protocol # "https:"
        THEN [err |-> Err("Unsupported protocol", fileUrl, 0), name |-> fileName,
              path |-> NoName]
        ELSE [err |-> NoErr, name |-> name, path |-> generateSafeFilename(name, tok)]

\* src/unnamed/part_000: no validation; protocol.get throws inside the promise
\* executor on a string it cannot parse as an absolute URL or a protocol the
\* module does not speak, and issues the request otherwise (a missing
\* hostname included: the URL parser of http.get takes the next segment)
BaselineCall(fileUrl, fileName) ==
    LET name == EnsurePdf(DeriveName(fileUrl, fileName))
    IN  IF fileUrl.protocol = ""
        THEN [err |-> Err("ERR_INVALID_URL", fileUrl, 0), name |-> name, path |-> name]
        ELSE IF fileUrl.protocol # "http:" /\ fileUrl.protocol # "https:"
        THEN [err |-> Err("ERR_INVALID_PROTOCOL", fileUrl, 0), name |-> name,
              path |-> name]
        ELSE [err |-> NoErr, name |-> name, path |-> name]

downloadPDF(fileUrl, fileName, tok) ==
    IF Hardened THEN HardenedCall(fileUrl, fileName, tok)
    ELSE BaselineCall(fileUrl, fileName)

\* the tokens a call can draw (the baseline draws none)
CallTokens == IF Hardened THEN Tokens ELSE {0}

(* ------------------------ the retry loop of one item ------------------- *)
SuccessRec(k, filePath) ==
    [url |-> pdfList[k].url, fileName |-> pdfList[k].name, filePath |-> filePath,
     status |-> "success"]
FailedRec(k, error) ==
    [url |-> pdfList[k].url, fileName |-> pdfList[k].name, error |-> error,
     status |-> "failed"]
\* the record pushed for a rejected batch promise
RejectedRec(reason) == [error |-> reason, status |-> "failed"]

\* mutant: the delay keyed to the 0-based attempt index
BackoffFromZero(attempt) == 1000 * attempt

\* 1000 * (attempt + 1)
BackoffMs(attempt) == BaseDelayMs * (attempt + 1)

\* mutant: lastError assigned only while it is unset
KeepFirstError(old, new) == IF old = Undefined THEN new ELSE old

\* which error the catch block keeps
KeepError(old, new) == new

\* mutant: one retry too few
RetryAgainShort(attempt) == attempt + 1 < retryCount

\* whether the catch block waits and goes round again
RetryAgain(attempt) == attempt < retryCount

\* An item step: the item's new state and what the step adds to the
\* transfers and to the item's history.
Step(it, trs, out, wt, cl, raised) ==
    [item |-> it, trs |-> trs, out |-> out, wt |-> wt, cl |-> cl, raised |-> raised]

\* mutant: an error of the URL validation is final, the others are retried
CatchClassified(k, it, error) ==
    IF RetryAgain(it.attempt) /\ error.kind \notin UrlErrorKinds
    THEN Step([it EXCEPT !.pc = "backoff", !.lastError = error,
                         !.delay = BackoffMs(it.attempt)],
              {}, <<FALSE>>, <<BackoffMs(it.attempt)>>, 0, error)
    ELSE Step([it EXCEPT !.pc = "settled", !.lastError = error,
                         !.value = FailedRec(k, error)],
              {}, <<FALSE>>, << >>, 0, error)

\* mutant: the error of the last attempt is thrown on instead of recorded
CatchRethrow(k, it, error) ==
    IF RetryAgain(it.attempt)
    THEN Step([it EXCEPT !.pc = "backoff", !.lastError = error,
                         !.delay = BackoffMs(it.attempt)],
              {}, <<FALSE>>, <<BackoffMs(it.attempt)>>, 0, error)
    ELSE Step([it EXCEPT !.pc = "threw", !.lastError = error,
                         !.value = RejectedRec(error)],
              {}, <<FALSE>>, << >>, 0, error)

\* catch (error) { lastError = error; if (attempt < retryCount) delay(...) }
\* and, after the last attempt, the failed record
Catch(k, it, error) ==
    LET kept == KeepError(it.lastError, error)
    IN  IF RetryAgain(it.attempt)
        THEN Step([it EXCEPT !.pc = "backoff", !.lastError = kept,
                             !.delay = BackoffMs(it.attempt)],
                  {}, <<FALSE>>, <<BackoffMs(it.attempt)>>, 0, error)
        ELSE Step([it EXCEPT !.pc = "settled", !.lastError = kept,
                             !.value = FailedRec(k, kept)],
                  {}, <<FALSE>>, << >>, 0, error)

\* mutant: the success does not leave the retry loop
ResolveNoBreak(k, it, filePath) ==
    IF RetryAgain(it.attempt)
    THEN Step([it EXCEPT !.pc = "backoff", !.delay = BackoffMs(it.attempt)],
              {}, <<TRUE>>, <<BackoffMs(it.attempt)>>, 0, NoErr)
    ELSE Step([it EXCEPT !.pc = "settled", !.value = SuccessRec(k, filePath)],
              {}, <<TRUE>>, << >>, 0, NoErr)

\* const filePath = await this.downloadPDF(...); the success record
Resolve(k, it, filePath) ==
    Step([it EXCEPT !.pc = "settled", !.value = SuccessRec(k, filePath)],
         {}, <<TRUE>>, << >>, 0, NoErr)

NewTransfer(k, a, hop, u, chain, c) ==
    [item |-> k, att |-> a, hop |-> hop, st |-> "pending", status |-> 0, url |-> u,
     chain |-> chain, name |-> c.name, path |-> c.path]

\* one trip round the for loop from its head: attempt a of item k
Attempt(k, it, a, tok) ==
    IF a > retryCount
    THEN \* the loop body never ran: lastError.message throws
         Step([it EXCEPT !.pc = "threw", !.value = RejectedRec(TypeErr)],
              {}, << >>, << >>, 0, NoErr)
    ELSE LET c == downloadPDF(pdfList[k].url, pdfList[k].name, tok)
             cur == [it EXCEPT !.attempt = a, !.delay = 0]
         IN  IF c.err = NoErr
             THEN Step([cur EXCEPT !.pc = "fetching"],
                       {NewTransfer(k, a, 0, pdfList[k].url, << >>, c)},
                       << >>, << >>, 1, NoErr)
             ELSE LET r == Catch(k, cur, c.err)
                  IN  Step(r.item, {}, r.out, r.wt, 1, r.raised)

(* ------------------------ the download directory ----------------------- *)
\* fs.createWriteStream(filePath): creates or truncates, one more open handle
createWriteStream(fs, p) ==
    LET old == {f \in fs : f.path = p}
        n == IF old = {} THEN 0 ELSE (CHOOSE f \in old : TRUE).open
    IN  (fs \ old) \cup {[path |-> p, body |-> << >>, open |-> n + 1]}

\* the stream's 'finish': the body is on disk and fileStream.close() ran
finishWrite(fs, p, body) ==
    {IF f.path = p THEN [f EXCEPT !.body = body, !.open = IF @ > 0 THEN @ - 1 ELSE 0]
     ELSE f : f \in fs}

\* fs.unlink(filePath, () => {})
unlink(fs, p) == {f \in fs : f.path # p}

PdfMagic == <<"%", "P", "D", "F">>

\* validatePDF: the first four bytes of the file are '%PDF'; false when the
\* file cannot be read
validatePDF(fs, p) ==
    \E f \in fs :
        /\ f.path = p
        /\ Len(f.body) >= Len(PdfMagic)
        /\ SubSeq(f.body, 1, Len(PdfMagic)) = PdfMagic

\* mutant: a file that fails validation rejects the call
ResolveOnlyValid(valid) == valid

\* the 'finish' handler resolves on either branch of the validation
ResolveAnyway(valid) == TRUE

(* ------------------------ the sequential scheduler --------------------- *)
\* mutant: a click is awaited after the last item too
PauseAfterLast(idx) ==
    IF pauseAfterFirst /\ idx = 0 /\ N > 1 THEN TRUE
    ELSE idx < N

\* mutant: the else branch is missing
PauseOnlyAfterFirst(idx) == pauseAfterFirst /\ idx = 0 /\ N > 1

\* part_000 lines 160-164: whether the loop awaits a click after index idx
ShouldPause(idx) ==
    IF pauseAfterFirst /\ idx = 0 /\ N > 1 THEN TRUE
    ELSE idx < N - 1

\* an attempt raised an error other than the one before it
Differs(before, raised) == before # NoErr /\ raised # NoErr /\ raised # before

\* the attempt promise a transfer belongs to is still pending
Live(t) ==
    /\ items[t.item].pc = "fetching"
    /\ items[t.item].attempt = t.att

\* Item k takes step r; base is the transfer set the step leaves besides
\* its own new transfers; nspc is the scheduler's position when the item
\* goes on.  In sequential mode a settled item is pushed at once
\* (part_000 lines 141 and 156) and the pause logic runs.
Apply(k, r, base, nspc) ==
    /\ transfers' = base \cup r.trs
    /\ calls' = [calls EXCEPT ![k] = @ + r.cl]
    /\ waits' = [waits EXCEPT ![k] = @ \o r.wt]
    /\ outcomes' = [outcomes EXCEPT ![k] = @ \o r.out]
    /\ lastRaised' = [lastRaised EXCEPT ![k] = IF r.raised = NoErr THEN @ ELSE r.raised]
    /\ mixed' = [mixed EXCEPT ![k] = @ \/ Differs(lastRaised[k], r.raised)]
    /\ arrival' = IF r.item.pc \in {"settled", "threw"} THEN Append(arrival, k) ELSE arrival
    /\ IF mode = "click" /\ r.item.pc = "settled"
       THEN /\ items' = [items EXCEPT ![k] = [r.item EXCEPT !.pc = "recorded"]]
            /\ IF r.item.value.status = "success"
               THEN /\ results' = Append(results, r.item.value)
                    /\ resultIdx' = Append(resultIdx, k)
                    /\ UNCHANGED <<failed, failedIdx>>
               ELSE /\ failed' = Append(failed, r.item.value)
                    /\ failedIdx' = Append(failedIdx, k)
                    /\ UNCHANGED <<results, resultIdx>>
            /\ IF ShouldPause(i)
               THEN spc' = "click" /\ i' = i /\ pauses' = Append(pauses, i)
               ELSE spc' = "loop" /\ i' = i + 1 /\ pauses' = pauses
       ELSE /\ items' = [items EXCEPT ![k] = r.item]
            /\ spc' = IF mode = "click" /\ r.item.pc = "threw" THEN "threw" ELSE nspc
            /\ i' = i
            /\ UNCHANGED <<lists, pauses>>

\* the promise of transfer t's attempt is resolved (ok) or rejected
Settle(t, ok, error, base) ==
    IF Live(t)
    THEN Apply(t.item,
               IF ok THEN Resolve(t.item, items[t.item], t.path)
               ELSE Catch(t.item, items[t.item], error),
               base, spc)
    ELSE /\ transfers' = base
         /\ UNCHANGED <<sched, items, lists, itemHist, pauses>>

(* ------------------------ scheduler actions ---------------------------- *)
\* downloadMultiplePDFs / downloadMultiplePDFsWithClick is called
Call ==
    /\ spc = "init"
    /\ spc' = "loop"
    /\ UNCHANGED <<opts, i, items, transfers, files, lists, itemHist, finished,
                   schedHist>>

\* mutant: the slice stops one short
BatchShort(from) == {k \in 1..N : from < k /\ k < from + concurrent}

\* pdfList.slice(i, i + concurrent), as 1-based indices
Batch(from) == {k \in 1..N : from < k /\ k <= from + concurrent}

\* the batch as the array slice it is: its indices in input order
BatchOrder(from) ==
    LET b == Batch(from)
    IN  [j \in 1..Cardinality(b) |->
            CHOOSE k \in b : Cardinality({m \in b : m < k}) = j - 1]

\* window head: every mapper of the batch runs to its first await
StartWindow ==
    /\ spc = "loop" /\ mode # "click" /\ i < N
    /\ \E toks \in [Batch(i) -> CallTokens] :
         LET r == [k \in Batch(i) |-> Attempt(k, items[k], 0, toks[k])]
         IN  /\ items' = [k \in 1..N |-> IF k \in Batch(i) THEN r[k].item ELSE items[k]]
             /\ transfers' = transfers \cup UNION {r[k].trs : k \in Batch(i)}
             /\ calls' = [k \in 1..N |-> IF k \in Batch(i) THEN calls[k] + r[k].cl
                                         ELSE calls[k]]
             /\ waits' = [k \in 1..N |-> IF k \in Batch(i) THEN waits[k] \o r[k].wt
                                         ELSE waits[k]]
             /\ outcomes' = [k \in 1..N |-> IF k \in Batch(i) THEN outcomes[k] \o r[k].out
                                            ELSE outcomes[k]]
             /\ lastRaised' = [k \in 1..N |->
                                 IF k \in Batch(i) /\ r[k].raised # NoErr THEN r[k].raised
                                 ELSE lastRaised[k]]
             /\ arrival' = arrival \o
                     SelectSeq(BatchOrder(i), LAMBDA k : r[k].item.pc \in {"settled", "threw"})
    /\ mixed' = mixed
    /\ spc' = "await"
    /\ windows' = IF windows < MaxWindows THEN windows + 1 ELSE windows
    /\ UNCHANGED <<opts, i, files, lists, finished, delays, pauses, clicks>>

\* sequential mode: the loop body starts item i
StartItem ==
    /\ spc = "loop" /\ mode = "click" /\ i < N
    /\ Apply(i + 1, Attempt(i + 1, items[i + 1], 0, 0), transfers, "await")
    /\ UNCHANGED <<opts, files, finished, windows, delays, clicks>>

\* the loop ends: printSummary, return { successful, failed }
Return ==
    /\ spc = "loop" /\ i >= N
    /\ spc' = "done"
    /\ UNCHANGED <<opts, i, items, transfers, files, lists, itemHist, finished,
                   schedHist>>

\* mutant: every fulfilled promise counts as a success
EveryFulfilled(k) == items[k].pc = "settled"

\* result.status === 'fulfilled' && result.value.status === 'success'
IsSuccess(k) == items[k].pc = "settled" /\ items[k].value.status = "success"

\* mutant: the results are visited in the order the promises settled
ArrivalOrder(from) == SelectSeq(arrival, LAMBDA k : k \in Batch(from))

\* batchResults.forEach: the results are visited by position in the batch
VisitOrder(from) == BatchOrder(from)

\* mutant: the window is over when its first promise settles
AnySettled(from) == \E k \in Batch(from) : items[k].pc \in {"settled", "threw"}

\* await Promise.allSettled(batchPromises)
AllSettled(from) == \A k \in Batch(from) : items[k].pc \in {"settled", "threw"}

\* mutant: the delay follows the last window too
DelayAfterEvery(from) == Hardened /\ delayBetweenBatches > 0

\* if (i + concurrent < pdfList.length && delayBetweenBatches > 0), which
\* only the hardened variant has
ShouldDelay(from) ==
    Hardened /\ from + concurrent < N /\ delayBetweenBatches > 0

\* Promise.allSettled resolved: results and failed pushed by position
Collect ==
    /\ spc = "await" /\ mode # "click"
    /\ AllSettled(i)
    /\ LET order == VisitOrder(i)
           good == SelectSeq(order, IsSuccess)
           bad == SelectSeq(order, LAMBDA k : ~IsSuccess(k))
       IN  /\ results' = results \o [j \in 1..Len(good) |-> items[good[j]].value]
           /\ resultIdx' = resultIdx \o good
           /\ failed' = failed \o [j \in 1..Len(bad) |-> items[bad[j]].value]
           /\ failedIdx' = failedIdx \o bad
    /\ items' = [k \in 1..N |-> IF k \in Batch(i) THEN [items[k] EXCEPT !.pc = "recorded"]
                                ELSE items[k]]
    /\ IF ShouldDelay(i)
       THEN /\ spc' = "delay" /\ i' = i
            /\ delays' = IF delays < MaxWindows THEN delays + 1 ELSE delays
       ELSE spc' = "loop" /\ i' = i + concurrent /\ delays' = delays
    /\ UNCHANGED <<opts, transfers, files, itemHist, finished, windows, pauses, clicks>>

\* await this.delay(delayBetweenBatches) is over
DelayDone ==
    /\ spc = "delay"
    /\ spc' = "loop" /\ i' = i + concurrent
    /\ UNCHANGED <<opts, items, transfers, files, lists, itemHist, finished,
                   schedHist>>

\* the operator presses Enter: waitForUserClick resolves
Click ==
    /\ spc = "click"
    /\ spc' = "loop" /\ i' = i + 1
    /\ clicks' = clicks + 1
    /\ UNCHANGED <<opts, items, transfers, files, lists, itemHist, finished,
                   windows, delays, pauses>>

\* the backoff delay of item k is over: the next attempt
BackoffDone(k) ==
    /\ items[k].pc = "backoff"
    /\ \E tok \in CallTokens :
         Apply(k, Attempt(k, items[k], items[k].attempt + 1, tok), transfers, spc)
    /\ UNCHANGED <<opts, files, finished, windows, delays, clicks>>

\* A sequential call has returned; the same list, with the same retryCount,
\* is handed to downloadMultiplePDFs of a new downloader with concurrent = 1.
Rerun ==
    /\ mode = "click" /\ spc = "done" /\ ref = NoRun
    /\ ref' = [outcomes |-> outcomes, lastRaised |-> lastRaised, finished |-> finished,
               results |-> results, failed |-> failed, calls |-> calls, by |-> mode]
    /\ mode' \in {"baseline", "hardened"}
    /\ concurrent' = 1
    /\ delayBetweenBatches' \in IF mode' = "hardened" THEN {0, DefaultBatchDelayMs} ELSE {0}
    /\ spc' = "init"
    /\ i' = 0
    /\ items' = [k \in 1..N |-> IdleItem]
    /\ transfers' = {}
    /\ files' = {}
    /\ results' = << >> /\ failed' = << >>
    /\ resultIdx' = << >> /\ failedIdx' = << >>
    /\ calls' = [k \in 1..N |-> 0]
    /\ waits' = [k \in 1..N |-> << >>]
    /\ outcomes' = [k \in 1..N |-> << >>]
    /\ lastRaised' = [k \in 1..N |-> NoErr]
    /\ mixed' = [k \in 1..N |-> FALSE]
    /\ arrival' = << >>
    /\ finished' = {}
    /\ windows' = 0 /\ delays' = 0
    /\ pauses' = << >>
    /\ clicks' = 0
    /\ UNCHANGED <<pdfList, retryCount, pauseAfterFirst, chainLimit>>

(* ------------------------ downloadPDF: the callbacks ------------------- *)
IsRedirect(resp) ==
    /\ resp.statusCode >= 300 /\ resp.statusCode < 400
    /\ resp.location # NoUrl

\* mutant: only the 4xx and 5xx statuses fail
IsErrorStatus(resp) == resp.statusCode >= 400

\* if (response.statusCode !== 200) reject(...)
IsFailureStatus(resp) == resp.statusCode # 200

\* the response callback of protocol.get
Response(t, resp) ==
    /\ t \in transfers /\ t.st = "pending"
    /\ IF IsRedirect(resp)
       THEN \* return this.downloadPDF(location, fileName).then(resolve).catch(reject)
            /\ t.hop < chainLimit
            /\ \E tok \in CallTokens :
                 LET c == downloadPDF(resp.location, t.name, tok)
                 IN  IF c.err = NoErr
                     THEN /\ transfers' = (transfers \ {t}) \cup
                               {NewTransfer(t.item, t.att, t.hop + 1, resp.location,
                                            Append(t.chain, t.url), c)}
                          /\ UNCHANGED <<sched, items, lists, itemHist, pauses>>
                     ELSE Settle(t, FALSE, c.err, transfers \ {t})
            /\ files' = files
       ELSE IF IsFailureStatus(resp)
       THEN /\ Settle(t, FALSE, Err("Failed to download", t.url, resp.statusCode),
                      transfers \ {t})
            /\ files' = files
       ELSE \* fs.createWriteStream(filePath); response.pipe(fileStream)
            /\ transfers' = (transfers \ {t}) \cup
                   {[t EXCEPT !.st = "streaming", !.status = resp.statusCode]}
            /\ files' = createWriteStream(files, t.path)
            /\ UNCHANGED <<sched, items, lists, itemHist, pauses>>
    /\ UNCHANGED <<opts, finished, windows, delays, clicks>>

\* request.on('error'): the connection fails before a response
RequestError(t) ==
    /\ t \in transfers /\ t.st = "pending"
    /\ Settle(t, FALSE, Err("Request failed", t.url, 0), transfers \ {t})
    /\ UNCHANGED <<opts, files, finished, windows, delays, clicks>>

\* request.setTimeout callback of the request in progress: request.destroy()
\* (request.abort() in the baseline), then reject
Timeout(t) ==
    /\ t \in transfers
    /\ Settle(t, FALSE, Err("Download timeout", t.url, 0), transfers \ {t})
    /\ UNCHANGED <<opts, files, finished, windows, delays, clicks>>

\* the timeout callback of an earlier request of the chain, whose redirect
\* response was never consumed: it destroys that request only and rejects
\* the shared promise; the request in progress goes on
StaleTimeout(t, j) ==
    /\ t \in transfers /\ Live(t)
    /\ j \in 1..Len(t.chain)
    /\ Settle(t, FALSE, Err("Download timeout", t.chain[j], 0), transfers)
    /\ UNCHANGED <<opts, files, finished, windows, delays, clicks>>

\* fileStream.on('finish'): close, validate, resolve(filePath)
Finish(t) ==
    /\ t \in transfers /\ t.st = "streaming"
    /\ files' = finishWrite(files, t.path, ServerBody(t.url))
    /\ LET valid == validatePDF(files', t.path)
           \* console.warn('PDF validation: FAILED ...'); the baseline
           \* does not validate
           warned == Hardened /\ ~valid
       IN  /\ finished' = finished \cup
                   {[item |-> t.item, att |-> t.att, hop |-> t.hop, path |-> t.path,
                     valid |-> valid, warned |-> warned]}
           /\ Settle(t, IF Hardened THEN ResolveAnyway(valid) ELSE TRUE,
                     Err("validation", t.url, 0), transfers \ {t})
    /\ UNCHANGED <<opts, windows, delays, clicks>>

\* fileStream.on('error'): unlink the partial file, reject(err)
WriteError(t) ==
    /\ t \in transfers /\ t.st = "streaming"
    /\ files' = unlink(files, t.path)
    /\ Settle(t, FALSE, Err("write error", t.url, 0), transfers \ {t})
    /\ UNCHANGED <<opts, finished, windows, delays, clicks>>

Next ==
    \/ Call
    \/ StartWindow
    \/ StartItem
    \/ Return
    \/ Collect
    \/ DelayDone
    \/ Click
    \/ \E k \in 1..N : BackoffDone(k)
    \/ \E t \in transfers, resp \in Responses : Response(t, resp)
    \/ \E t \in transfers : RequestError(t)
    \/ \E t \in transfers : Timeout(t)
    \/ \E t \in transfers, j \in 1..chainLimit : StaleTimeout(t, j)
    \/ \E t \in transfers : Finish(t)
    \/ \E t \in transfers : WriteError(t)

Spec == Init /\ [][Next]_vars

(* The retry loop of a single request, with more retries. *)
InitItem ==
    InitWith({"hardened", "baseline", "click"}, Requests, {1}, 0..MaxItemRetry, {1},
             MaxHops)

NextItem ==
    \/ Call
    \/ StartWindow
    \/ StartItem
    \/ Return
    \/ Collect
    \/ \E k \in 1..N : BackoffDone(k)
    \/ \E t \in transfers, resp \in Responses : Response(t, resp)
    \/ \E t \in transfers : RequestError(t)
    \/ \E t \in transfers : Timeout(t)
    \/ \E t \in transfers, j \in 1..chainLimit : StaleTimeout(t, j)
    \/ \E t \in transfers : Finish(t)
    \/ \E t \in transfers : WriteError(t)

SpecItem == InitItem /\ [][NextItem]_vars

(* The sequential externally-paced scheduler, with longer lists and no retry. *)
InitClick == InitWith({"click"}, {ReqB, ReqFtp}, 0..MaxClickN, {-1, 0}, {1}, MaxHops)

NextClick ==
    \/ Call
    \/ StartItem
    \/ Return
    \/ Click
    \/ \E t \in transfers, resp \in Responses : Response(t, resp)
    \/ \E t \in transfers : RequestError(t)
    \/ \E t \in transfers : Timeout(t)
    \/ \E t \in transfers, j \in 1..chainLimit : StaleTimeout(t, j)
    \/ \E t \in transfers : Finish(t)
    \/ \E t \in transfers : WriteError(t)

SpecClick == InitClick /\ [][NextClick]_vars

(* Bounded-concurrency runs of longer lists, with no retry. *)
InitWide ==
    InitWith({"hardened", "baseline"}, {ReqA, ReqFtp}, {MaxWideN}, {0}, 1..MaxC, MaxHops)

NextWide ==
    \/ Call
    \/ StartWindow
    \/ Return
    \/ Collect
    \/ DelayDone
    \/ \E t \in transfers, resp \in Responses : Response(t, resp)
    \/ \E t \in transfers : RequestError(t)
    \/ \E t \in transfers : Timeout(t)
    \/ \E t \in transfers, j \in 1..chainLimit : StaleTimeout(t, j)
    \/ \E t \in transfers : Finish(t)
    \/ \E t \in transfers : WriteError(t)

SpecWide == InitWide /\ [][NextWide]_vars

(* One request against servers that keep answering with redirects. *)
InitRedirect ==
    InitWith({"hardened", "baseline"}, {ReqA, ReqB}, {1}, {0}, {1}, MaxCycleHops)

NextRedirect ==
    \/ Call
    \/ StartWindow
    \/ Return
    \/ Collect
    \/ \E t \in transfers, resp \in Responses : Response(t, resp)
    \/ \E t \in transfers : RequestError(t)
    \/ \E t \in transfers : Timeout(t)
    \/ \E t \in transfers, j \in 1..chainLimit : StaleTimeout(t, j)
    \/ \E t \in transfers : Finish(t)
    \/ \E t \in transfers : WriteError(t)

SpecRedirect == InitRedirect /\ [][NextRedirect]_vars

(* One request whose URL is malformed or of an unsupported scheme. *)
InitUrl ==
    InitWith({"hardened", "baseline", "click"}, BadRequests, {1}, 0..MaxItemRetry, {1},
             MaxHops)

SpecUrl == InitUrl /\ [][NextItem]_vars

(* The baseline downloader on lists that name the same URL more than once. *)
InitNames ==
    InitWith({"baseline", "click"}, {ReqA}, 1..MaxN, 0..MaxRetry, 1..MaxC, MaxHops)

NextNames ==
    \/ Call
    \/ StartWindow
    \/ StartItem
    \/ Return
    \/ Collect
    \/ Click
    \/ \E k \in 1..N : BackoffDone(k)
    \/ \E t \in transfers, resp \in Responses : Response(t, resp)
    \/ \E t \in transfers : RequestError(t)
    \/ \E t \in transfers : Timeout(t)
    \/ \E t \in transfers, j \in 1..chainLimit : StaleTimeout(t, j)
    \/ \E t \in transfers : Finish(t)
    \/ \E t \in transfers : WriteError(t)

SpecNames == InitNames /\ [][NextNames]_vars

(* Bounded-concurrency runs in which whatever can happen eventually does:  *)
(* the scheduler goes on, and every fetch and every delay settles.         *)
InitLive ==
    InitWith({"hardened", "baseline"}, {ReqA}, 0..MaxLiveN, -1..MaxRetry, 0..MaxC,
             MaxHops)

SchedulerStep == Call \/ StartWindow \/ Collect \/ Return

DelaySettles == DelayDone \/ \E k \in 1..N : BackoffDone(k)

FetchSettles ==
    \/ \E t \in transfers, resp \in Responses : Response(t, resp)
    \/ \E t \in transfers : RequestError(t)
    \/ \E t \in transfers : Timeout(t)
    \/ \E t \in transfers, j \in 1..chainLimit : StaleTimeout(t, j)
    \/ \E t \in transfers : Finish(t)
    \/ \E t \in transfers : WriteError(t)

NextLive == SchedulerStep \/ DelaySettles \/ FetchSettles

SpecLive ==
    /\ InitLive /\ [][NextLive]_vars
    /\ WF_vars(SchedulerStep) /\ WF_vars(DelaySettles) /\ WF_vars(FetchSettles)

(* The same list handed to both schedulers: a sequential call, then a call *)
(* of downloadMultiplePDFs with concurrent = 1 whose attempts meet what the *)
(* attempts of the sequential call met.  The servers of these runs do not  *)
(* redirect.                                                                *)
InitPair == InitWith({"click"}, {ReqA, ReqFtp}, 0..MaxN, 0..MaxRetry, {1}, 0)

\* the path the stream of attempt a of request k finished writing
ResolvedPath(fin, k, a) == {f.path : f \in {g \in fin : g.item = k /\ g.att = a}}

\* As far as both calls have got, the attempts of request k were resolved and
\* rejected alike; once both made as many attempts, the last one resolved
\* with the same path or was rejected with the same error.
SameOutcomesOf(k) ==
    LET mine == outcomes[k]
        theirs == ref.outcomes[k]
        m == IF Len(mine) < Len(theirs) THEN Len(mine) ELSE Len(theirs)
    IN  /\ SubSeq(mine, 1, m) = SubSeq(theirs, 1, m)
        /\ (Len(mine) = Len(theirs) /\ m > 0) =>
               IF mine[m]
               THEN ResolvedPath(finished, k, m - 1) = ResolvedPath(ref.finished, k, m - 1)
               ELSE lastRaised[k] = ref.lastRaised[k]

SameOutcomes == \A k \in 1..N : SameOutcomesOf(k)

\* the servers answer the second call as they answered the first
Replayed == ref # NoRun => SameOutcomes'

NextPair ==
    \/ Rerun
    \/ Call /\ Replayed
    \/ StartWindow /\ Replayed
    \/ StartItem /\ Replayed
    \/ Return /\ Replayed
    \/ Collect /\ Replayed
    \/ DelayDone /\ Replayed
    \/ Click /\ Replayed
    \/ \E k \in 1..N : BackoffDone(k) /\ Replayed
    \/ \E t \in transfers, resp \in Responses : Response(t, resp) /\ Replayed
    \/ \E t \in transfers : RequestError(t) /\ Replayed
    \/ \E t \in transfers : Timeout(t) /\ Replayed
    \/ \E t \in transfers : Finish(t) /\ Replayed
    \/ \E t \in transfers : WriteError(t) /\ Replayed

SpecPair == InitPair /\ [][NextPair]_vars

(* ============================ claims =================================== *)
InSeq(x, sq) == \E j \in 1..Len(sq) : sq[j] = x
Increasing(sq) == \A a, b \in 1..Len(sq) : a < b => sq[a] < sq[b]
Count(x, sq) == Cardinality({j \in 1..Len(sq) : sq[j] = x})
CeilDiv(a, b) == (a + b - 1) \div b
\* the request failed for good: every attempt was rejected
FailedForGood(k) ==
    /\ items[k].pc \in {"settled", "recorded"}
    /\ items[k].value.status = "failed"
    /\ "url" \in DOMAIN items[k].value

\* C1: when a run with concurrency >= 1 and retryCount >= 0 returns, every
\* request has exactly one outcome record: the two lists together are as
\* long as the request list, and each request is behind exactly one record,
\* which carries that request's URL.
C1_OneOutcomePerRequest ==
    (spc = "done" /\ concurrent >= 1 /\ retryCount >= 0) =>
        /\ Len(results) + Len(failed) = N
        /\ Len(resultIdx) = Len(results) /\ Len(failedIdx) = Len(failed)
        /\ \A k \in 1..N : Count(k, resultIdx) + Count(k, failedIdx) = 1
        /\ \A j \in 1..Len(results) : results[j].url = pdfList[resultIdx[j]].url
        /\ \A j \in 1..Len(failed) : failed[j].url = pdfList[failedIdx[j]].url

\* C1 witness: a returned run of two requests, one success and one failure
C1_Witness ==
    /\ spc = "done" /\ N = 2 /\ concurrent = 2 /\ retryCount >= 1
    /\ Len(results) = 1 /\ Len(failed) = 1

\* C2: a request is recorded as failed only after exactly retryCount + 1
\* attempts, all of them rejected (retryCount >= 0), in every mode.
C2_ExhaustsRetries ==
    retryCount >= 0 =>
        \A k \in 1..N :
            FailedForGood(k) =>
                /\ calls[k] = retryCount + 1
                /\ outcomes[k] = [j \in 1..(retryCount + 1) |-> FALSE]

\* C2 witness: a request in the failed list after three attempts
C2_Witness ==
    /\ retryCount = 2 /\ spc = "done"
    /\ failedIdx = <<1>> /\ calls[1] = 3

C4_LastErrorSurfaced ==
    /\ \A j \in 1..Len(failed) :
           "url" \in DOMAIN failed[j] => failed[j].error = lastRaised[failedIdx[j]]
    /\ \A k \in 1..N : FailedForGood(k) => items[k].value.error = lastRaised[k]

\* C4 witness: a failure record of a request whose attempts raised
\* different errors
C4_Witness ==
    /\ retryCount >= 1 /\ failedIdx = <<1>>
    /\ mixed[1] /\ calls[1] = retryCount + 1

\* C5 (as claimed): a bounded-concurrency run has ceil(N / c) windows and
\* never more than c transfers in flight, a transfer being a request that
\* awaits its response or streams its body
C5_BoundedInFlight ==
    (mode # "click" /\ concurrent >= 1) =>
        /\ Cardinality(transfers) <= concurrent
        /\ spc = "done" => windows = CeilDiv(N, concurrent)

WindowOf(k) == (k - 1) \div concurrent

\* the request has its final outcome: a success, or a failure after
\* retryCount + 1 attempts
FinalOutcome(k) ==
    /\ items[k].pc = "recorded"
    /\ \/ /\ InSeq(k, resultIdx)
          /\ items[k].value.status = "success"
          /\ outcomes[k] # << >> /\ outcomes[k][Len(outcomes[k])]
       \/ /\ InSeq(k, failedIdx)
          /\ calls[k] = retryCount + 1
          /\ outcomes[k] = [j \in 1..(retryCount + 1) |-> FALSE]

\* C6: no attempt of a request of a later window starts before every
\* request of the earlier windows has its final outcome, and a request is
\* collected only with its final outcome, whatever became of its siblings.
C6_WindowBarrier ==
    (mode # "click" /\ concurrent >= 1) =>
        /\ \A j, k \in 1..N :
               (WindowOf(j) < WindowOf(k) /\ calls[k] > 0) => FinalOutcome(j)
        /\ \A k \in 1..N : items[k].pc = "recorded" => FinalOutcome(k)

\* C6 witness: the third request is being fetched after a window of two in
\* which the first request failed before the second succeeded
C6_Witness ==
    /\ concurrent = 2 /\ N = 3 /\ items[3].pc = "fetching"
    /\ arrival = <<1, 2>> /\ failedIdx = <<1>> /\ resultIdx = <<2>>

\* C7: each outcome list is in input order, and holds the records of the
\* requests by position, whatever the order in which they settled.
C7_InputOrder ==
    /\ Increasing(resultIdx) /\ Increasing(failedIdx)
    /\ \A j \in 1..Len(results) : results[j] = items[resultIdx[j]].value
    /\ \A j \in 1..Len(failed) : failed[j] = items[failedIdx[j]].value

\* C7 witness: two successes of one window, the second request first
C7_Witness ==
    /\ spc = "done" /\ concurrent = 2
    /\ arrival = <<2, 1>> /\ resultIdx = <<1, 2>>

C9_OneAtATime ==
    mode = "click" =>
        /\ Cardinality({k \in 1..N : items[k].pc \in {"fetching", "backoff"}}) <= 1
        /\ \A k \in 2..N :
               calls[k] > 0 =>
                   /\ items[k - 1].pc = "recorded"
                   /\ Count(k - 1, resultIdx) + Count(k - 1, failedIdx) = 1
                   /\ Len(pauses) >= k - 1 /\ clicks >= k - 1

\* C9 witness: the second request is being fetched after the first failed
\* through a backoff and the click was given
C9_Witness ==
    /\ mode = "click" /\ N = 2 /\ ~pauseAfterFirst
    /\ items[2].pc = "fetching" /\ failedIdx = <<1>> /\ waits[1] = <<1000>>
    /\ clicks = 1

\* the name the first call of a request works with
FirstName(k) ==
    IF Hardened THEN HardenedCall(pdfList[k].url, pdfList[k].name, 1).name
    ELSE BaselineCall(pdfList[k].url, pdfList[k].name).name

\* C10 (as claimed): an attempt whose redirect chain ends in a 200 whose
\* body is written without error resolves, whatever the timeouts of the
\* earlier requests of the chain, and the file goes by the name of the
\* first call
C10_RedirectChainResolves ==
    /\ \A f \in finished :
           f.hop >= 1 =>
               /\ Len(outcomes[f.item]) > f.att
               /\ outcomes[f.item][f.att + 1]
    /\ \A t \in transfers : t.name = FirstName(t.item)

\* the redirect-depth ceiling the contract asks for: any depth below the
\* length of the chain the servers produce
RedirectCeiling == MaxCycleHops - 1

\* C11 (as claimed): a call follows at most a fixed number of redirects: no
\* request is issued at a redirect depth beyond the ceiling, however long the
\* servers keep redirecting
C11_RedirectCeiling ==
    \A t \in transfers : t.hop <= RedirectCeiling

\* an attempt of request k (attempt items'[k].attempt) was rejected in this
\* step
FailedNow(k) ==
    /\ Len(outcomes'[k]) = Len(outcomes[k]) + 1
    /\ ~outcomes'[k][Len(outcomes'[k])]

\* ... by a timeout callback
TimedOutNow(k) == FailedNow(k) /\ lastRaised'[k].kind = "Download timeout"

\* C12 (as claimed): when an attempt's timeout fires, no transfer of that
\* attempt is in flight afterwards, a transfer started by a redirect within
\* the attempt included, and the transfers of the other requests are as
\* they were
C12_TimeoutEndsAttempt ==
    [][\A k \in 1..N :
          TimedOutNow(k) =>
              /\ \A t \in transfers' : ~(t.item = k /\ t.att = items'[k].attempt)
              /\ {t \in transfers' : t.item # k} = {t \in transfers : t.item # k}]_vars

\* C13 (as claimed): after a failed attempt no file that the attempt was
\* writing remains in the directory, with or without an open handle
C13_NoPartialFile ==
    [][\A k \in 1..N :
          FailedNow(k) =>
              \A t \in transfers :
                  (t.item = k /\ t.att = items'[k].attempt /\ t.st = "streaming") =>
                      \A f \in files' : f.path # t.path]_vars

\* C14 (as claimed): a transfer that completes with a file that fails
\* validation yields a success with the validation warning: its attempt
\* resolved, the request is in the successful list once the run has
\* returned, it was attempted no further, and the file is still there
C14_ValidationAdvisory ==
    \A f \in finished :
        ~f.valid =>
            /\ Len(outcomes[f.item]) > f.att
            /\ outcomes[f.item][f.att + 1]
            /\ calls[f.item] = f.att + 1
            /\ Hardened => f.warned
            /\ spc = "done" => InSeq(f.item, resultIdx)
            /\ \E file \in files : file.path = f.path

\* a URL with no protocol, no hostname, or a scheme other than http / https
BadUrl(u) ==
    \/ u.protocol = "" \/ u.hostname = ""
    \/ u.protocol \notin {"http:", "https:"}

\* C15 (as claimed): a call with a malformed URL or an unsupported scheme
\* rejects at once: no request is ever issued for such a URL, every call
\* for such a request has been rejected by the time it returns, and a run of
\* one such request creates no file
C15_InvalidUrlRejected ==
    /\ \A t \in transfers : ~BadUrl(t.url)
    /\ \A k \in 1..N :
           BadUrl(pdfList[k].url) =>
               /\ items[k].pc # "fetching"
               /\ Len(outcomes[k]) = calls[k]
               /\ \A j \in 1..Len(outcomes[k]) : ~outcomes[k][j]
               /\ N = 1 => files = {}

\* C16: with concurrency >= 1 and retryCount >= 0 no failure ends the run
\* early, in any scheduler: the run never throws, and when it returns every
\* request was attempted at least once and has its outcome record, the
\* requests after a failed one included.
C16_FailureDoesNotAbort ==
    (retryCount >= 0 /\ concurrent >= 1) =>
        /\ spc # "threw"
        /\ \A k \in 1..N : items[k].pc # "threw"
        /\ spc = "done" =>
               \A k \in 1..N :
                   /\ calls[k] >= 1
                   /\ Count(k, resultIdx) + Count(k, failedIdx) = 1

\* C16 witness: a returned sequential run whose first request failed after
\* its retries and whose second request was then fetched with success
C16_Witness ==
    /\ mode = "click" /\ spc = "done" /\ N = 2 /\ retryCount = 1
    /\ failedIdx = <<1>> /\ calls[1] = 2
    /\ resultIdx = <<2>> /\ calls[2] >= 1

\* C17 (as claimed): every record of the failed list carries the URL and
\* the suggested name of the request it belongs to, and an error
C17_FailedRecordsCarryUrl ==
    \A j \in 1..Len(failed) :
        /\ "url" \in DOMAIN failed[j]
        /\ failed[j].url = pdfList[failedIdx[j]].url
        /\ failed[j].fileName = pdfList[failedIdx[j]].name
        /\ failed[j].error \notin {NoErr, Undefined}

\* the fetches that have written to disk: those streaming and those finished
Writers ==
    {[item |-> t.item, att |-> t.att, hop |-> t.hop, path |-> t.path] :
         t \in {u \in transfers : u.st = "streaming"}}
    \cup {[item |-> f.item, att |-> f.att, hop |-> f.hop, path |-> f.path] : f \in finished}

\* two requests without a name whose URLs end in the same segment
SameBasename(j, k) ==
    /\ pdfList[j].name = NoName /\ pdfList[k].name = NoName
    /\ basename(pdfList[j].url.pathname) = basename(pdfList[k].url.pathname)

\* C18 (as claimed): two fetches of a run for requests without a name that
\* share a URL basename, two attempts of one request included, never write
\* to the same path
C18_NoPathCollision ==
    \A a, b \in Writers :
        (a # b /\ SameBasename(a.item, b.item)) => a.path # b.path

\* C19: an attempt that fails on its response status (a status other than
\* 200 that is no redirect to follow, a 3xx without Location included)
\* creates no file and ends its request, and only a 200 response is ever
\* streamed to disk.
C19_StatusFails ==
    [][/\ \A t \in transfers' : t.st = "streaming" => t.status = 200
       /\ \A k \in 1..N :
              (FailedNow(k) /\ lastRaised'[k].kind = "Failed to download") =>
                  /\ lastRaised'[k].code # 200
                  /\ files' = files
                  /\ transfers' \subseteq transfers
                  /\ \E t \in transfers \ transfers' :
                         /\ t.item = k /\ t.st = "pending"
                         /\ t.url = lastRaised'[k].url]_vars

\* C19 witness: the only attempt of a request failed on a 302 without
\* Location, and the directory is empty
C19_Witness ==
    /\ retryCount = 0 /\ FailedForGood(1)
    /\ lastRaised[1] = Err("Failed to download", pdfList[1].url, 302)
    /\ files = {} /\ transfers = {}

\* C20: errors are not classified: a request whose every attempt was
\* rejected for its URL (invalid URL, unsupported protocol) is recorded as
\* failed only after retryCount + 1 attempts and retryCount backoff waits of
\* 1000, 2000, ... ms, and while attempts remain such a rejection is
\* followed by a backoff.
C20_NoErrorClassification ==
    \A k \in 1..N :
        (retryCount >= 0 /\ lastRaised[k].kind \in UrlErrorKinds /\ ~mixed[k]) =>
            /\ FailedForGood(k) =>
                   /\ calls[k] = retryCount + 1
                   /\ outcomes[k] = [j \in 1..(retryCount + 1) |-> FALSE]
                   /\ waits[k] = [j \in 1..retryCount |-> j * BaseDelayMs]
            /\ (/\ items[k].attempt + 1 = Len(outcomes[k])
                /\ ~outcomes[k][Len(outcomes[k])]
                /\ Len(outcomes[k]) <= retryCount) =>
                   /\ items[k].pc = "backoff"
                   /\ items[k].delay = Len(outcomes[k]) * BaseDelayMs

\* C20 witness: a request with a relative URL failed for good after three
\* attempts and two backoff waits
C20_Witness ==
    /\ retryCount = 2 /\ pdfList[1] = ReqRel /\ FailedForGood(1)
    /\ lastRaised[1].kind \in UrlErrorKinds /\ ~mixed[1]
    /\ calls[1] = 3 /\ waits[1] = <<1000, 2000>>

\* C21: in a hardened bounded-concurrency run with delayBetweenBatches > 0
\* the k-th delay is taken after window k is collected and before window
\* k + 1 starts, ceil(N / c) - 1 times in a returned run, never after the
\* last window; with delayBetweenBatches = 0 no delay is taken.
C21_InterWindowDelay ==
    (Hardened /\ concurrent >= 1) =>
        IF delayBetweenBatches > 0
        THEN /\ spc = "await" => delays = windows - 1
             /\ spc = "delay" =>
                    /\ delays = windows /\ windows < CeilDiv(N, concurrent)
                    /\ \A k \in 1..N :
                           IF WindowOf(k) < windows THEN FinalOutcome(k)
                           ELSE calls[k] = 0 /\ items[k].pc = "idle"
             /\ \A k \in 1..N : calls[k] > 0 => delays >= WindowOf(k)
             /\ spc = "done" => delays = CeilDiv(N, concurrent) - 1
        ELSE delays = 0 /\ spc # "delay"

\* C21 witness: three requests fetched one per window, a failure among
\* them, and two delays
C21_Witness ==
    /\ Hardened /\ spc = "done" /\ N = 3 /\ concurrent = 1
    /\ delayBetweenBatches > 0 /\ delays = 2 /\ windows = 3
    /\ Len(failed) >= 1 /\ Len(results) >= 1

\* C22: a success is the last attempt of its request: the request that
\* first succeeds on its k-th attempt has k attempts (k <= retryCount + 1)
\* and k - 1 backoff waits, none after the success; it is recorded once, in
\* the successful list only, and its record carries no error.
C22_NoAttemptAfterSuccess ==
    \A k \in 1..N :
        LET n == Len(outcomes[k])
        IN  /\ \A j \in 1..n : outcomes[k][j] => j = n
            /\ (n > 0 /\ outcomes[k][n]) =>
                   /\ items[k].pc \in {"settled", "recorded"}
                   /\ items[k].value.status = "success"
                   /\ "error" \notin DOMAIN items[k].value
                   /\ calls[k] = n /\ n <= retryCount + 1
                   /\ waits[k] = [j \in 1..(n - 1) |-> j * BaseDelayMs]
                   /\ ~InSeq(k, failedIdx)
                   /\ items[k].pc = "recorded" =>
                          /\ Count(k, resultIdx) = 1
                          /\ \A j \in 1..Len(results) :
                                 resultIdx[j] = k => results[j] = items[k].value

\* C22 witness: a returned run whose request failed once and then
\* succeeded, with a retry left unused
C22_Witness ==
    /\ retryCount = 2 /\ spc = "done"
    /\ outcomes[1] = <<FALSE, TRUE>> /\ calls[1] = 2 /\ waits[1] = <<1000>>
    /\ resultIdx = <<1>> /\ failed = << >>

\* C23 (as claimed): a bounded-concurrency run in which every fetch and
\* every delay settles returns, whatever the integers given as concurrent
\* and retryCount
C23_Terminates == <>(spc = "done")

\* C24: for the same request list, the same retryCount >= 0 and the same
\* per-attempt fetch outcomes, downloadMultiplePDFs with concurrent = 1
\* returns the successful and the failed list the sequential call
\* (downloadMultiplePDFsWithClick, every click given) returned, and calls
\* downloadPDF as often for every request.
C24_SequentialMatchesBatch ==
    (ref # NoRun /\ spc = "done" /\ SameOutcomes) =>
        /\ results = ref.results
        /\ failed = ref.failed
        /\ calls = ref.calls

\* both calls have returned, one request succeeded, the other failed, and
\* a request was retried
C24_Witness ==
    /\ ref # NoRun /\ spc = "done" /\ SameOutcomes
    /\ N = 2 /\ retryCount >= 1
    /\ Len(results) = 1 /\ Len(failed) = 1
    /\ \E k \in 1..N : calls[k] = 2 /\ outcomes[k] = <<FALSE, TRUE>>

====
